---- MODULE Spec2Model ----
(***************************************************************************)
(* Model of the flight-notification parser (src/data_parser/parser.py) and *)
(* of its bulk driver (src/data_parser/parse_all.py).                      *)
(*                                                                         *)
(* Text is a sequence of one-character strings.  An optional value (a      *)
(* Python value that may be None) is a sequence of length 0 or 1.  A call  *)
(* that may raise returns Ok(value) or Raise(message).  A decimal-degree   *)
(* float +-(d + m/60.0) is kept as its sign bit and the integer 60*d + m   *)
(* (sixtieths of a degree), which is exact at the minute resolution of the *)
(* messages; negating a zero sets the sign bit (IEEE -0.0).                *)
(***************************************************************************)
EXTENDS Integers, Sequences, FiniteSets, TLC

None == <<>>
Some(x) == <<x>>
Ok(v) == [raised |-> FALSE, value |-> v]
Raise(e) == [raised |-> TRUE, error |-> e]

\* ------------------------------------------------------------------------
\* Bounds of the explored inputs
\* ------------------------------------------------------------------------
MaxZoneTokens == 3
MaxKLines == 2
MaxKTokens == 2

\* ------------------------------------------------------------------------
\* Characters and the str methods the parser uses
\* ------------------------------------------------------------------------
DigitChars == <<"0","1","2","3","4","5","6","7","8","9">>
Digit == {DigitChars[i] : i \in 1..10}
UpperChars == <<"A","B","C","D","E","F","G","H","I","J","K","L","M","N","O","P","Q","R","S","T","U","V","W","X","Y","Z">>
LowerChars == <<"a","b","c","d","e","f","g","h","i","j","k","l","m","n","o","p","q","r","s","t","u","v","w","x","y","z">>
UpperLetter == {UpperChars[i] : i \in 1..26}
LowerLetter == {LowerChars[i] : i \in 1..26}
Whitespace == {" ", "\t", "\n", "\r"}
LineBreak == {"\n", "\r"}

Min(S) == CHOOSE x \in S : \A y \in S : x <= y

DigitVal(c) == (CHOOSE i \in 1..10 : DigitChars[i] = c) - 1

RECURSIVE IntOf(_)
IntOf(s) ==
    IF s = <<>> THEN 0
    ELSE IntOf(SubSeq(s, 1, Len(s) - 1)) * 10 + DigitVal(s[Len(s)])

AllIn(s, C) == \A i \in 1..Len(s) : s[i] \in C

UpperChar(c) ==
    IF c \in LowerLetter
    THEN UpperChars[CHOOSE i \in 1..26 : LowerChars[i] = c]
    ELSE c

Upper(s) == [i \in 1..Len(s) |-> UpperChar(s[i])]

StartsWith(s, p) == Len(s) >= Len(p) /\ SubSeq(s, 1, Len(p)) = p

MatchAt(s, i, p) == i + Len(p) - 1 <= Len(s) /\ SubSeq(s, i, i + Len(p) - 1) = p

\* str.strip(chars): drop leading and trailing characters of the set C
StripSet(s, C) ==
    LET keep == {i \in 1..Len(s) : s[i] \notin C}
    IN IF keep = {} THEN <<>>
       ELSE SubSeq(s, Min(keep), CHOOSE j \in keep : \A k \in keep : k <= j)

Strip(s) == StripSet(s, Whitespace)

\* pieces of s between separator characters of the set C, empty ones included
RECURSIVE Pieces(_, _)
Pieces(s, C) ==
    LET seps == {i \in 1..Len(s) : s[i] \in C}
    IN IF seps = {} THEN <<s>>
       ELSE LET i == Min(seps)
            IN <<SubSeq(s, 1, i - 1)>> \o Pieces(SubSeq(s, i + 1, Len(s)), C)

\* str.split(): split on runs of whitespace, no empty strings
Split(s) == SelectSeq(Pieces(s, Whitespace), LAMBDA t : t # <<>>)

\* str.splitlines(), up to empty lines (a "\r\n" pair gives an empty line,
\* a trailing break gives one; every use below discards lines not starting
\* with the marker, so empty lines are immaterial)
SplitLines(s) == Pieces(s, LineBreak)

\* str.replace of one character by another
ReplaceChar(s, a, b) == [i \in 1..Len(s) |-> IF s[i] = a THEN b ELSE s[i]]

\* ------------------------------------------------------------------------
\* Coordinate.from_str
\* ------------------------------------------------------------------------
AssertionError == "AssertionError"
WrongFormat == "Wrong coordinate format"
MultipleK == "Multiple -K lines found in SHR message"

\* re.match(r'(\d{2})(\d{2})([NS])(\d{3})(\d{2})([EW])', value) on 11 characters
DecoderShape(value) ==
    /\ Len(value) >= 11
    /\ AllIn(SubSeq(value, 1, 4), Digit)
    /\ value[5] \in {"N", "S"}
    /\ AllIn(SubSeq(value, 6, 10), Digit)
    /\ value[11] \in {"E", "W"}

\* int(deg) + int(min)/60.0, a non-negative float
Degrees(deg, min) == [negative |-> FALSE, sixtieths |-> 60 * IntOf(deg) + IntOf(min)]

\* -x on a float
Negate(x) == [negative |-> ~x.negative, sixtieths |-> x.sixtieths]

from_str_unsigned(value) ==
    IF Len(value) # 11 THEN Raise(AssertionError)
    ELSE IF ~DecoderShape(value) THEN Raise(WrongFormat)
    ELSE Ok([latitude |-> Degrees(SubSeq(value, 1, 2), SubSeq(value, 3, 4)),
             longitude |-> Degrees(SubSeq(value, 6, 8), SubSeq(value, 9, 10))])

from_str(value) ==
    IF Len(value) # 11 THEN Raise(AssertionError)
    ELSE IF ~DecoderShape(value) THEN Raise(WrongFormat)
    ELSE LET lat == Degrees(SubSeq(value, 1, 2), SubSeq(value, 3, 4))
             lon == Degrees(SubSeq(value, 6, 8), SubSeq(value, 9, 10))
         IN Ok([latitude |-> IF value[5] = "S" THEN Negate(lat) ELSE lat,
                longitude |-> IF value[11] = "W" THEN Negate(lon) ELSE lon])

\* [Coordinate.from_str(t) for t in tokens]: the first failure propagates
RECURSIVE DecodeAll(_)
DecodeAll(tokens) ==
    IF tokens = <<>> THEN Ok(<<>>)
    ELSE LET h == from_str(tokens[1])
         IN IF h.raised THEN h
            ELSE LET r == DecodeAll(Tail(tokens))
                 IN IF r.raised THEN r ELSE Ok(<<h.value>> \o r.value)

\* ------------------------------------------------------------------------
\* Token classifier
\* ------------------------------------------------------------------------
_clean_token(token) == StripSet(Strip(token), {".", ",", "/"})

_is_coordinate_token_prefix(token) == DecoderShape(token)

\* re.fullmatch(r'\d{4}[NS]\d{5}[EW]', token)
_is_coordinate_token(token) == Len(token) = 11 /\ DecoderShape(token)

\* digit (_? digit)* : the digit part of a Python float literal
DigitPart(s) ==
    /\ s # <<>>
    /\ AllIn(s, Digit \cup {"_"})
    /\ s[1] # "_" /\ s[Len(s)] # "_"
    /\ \A i \in 1..(Len(s) - 1) : ~(s[i] = "_" /\ s[i + 1] = "_")

DigitsOf(s) == SelectSeq(s, LAMBDA c : c # "_")

RECURSIVE Normalize(_, _)
Normalize(m, e) ==
    IF m = 0 THEN [kind |-> "finite", m |-> 0, e |-> 0]
    ELSE IF m % 10 = 0 THEN Normalize(m \div 10, e + 1)
    ELSE [kind |-> "finite", m |-> m, e |-> e]

\* mantissa of an upper-cased float literal: digits [. [digits]] | . digits
MantissaOk(s) ==
    LET dots == {i \in 1..Len(s) : s[i] = "."}
    IN IF dots = {} THEN DigitPart(s)
       ELSE LET d == Min(dots)
                ip == SubSeq(s, 1, d - 1)
                fp == SubSeq(s, d + 1, Len(s))
            IN /\ (ip = <<>> \/ DigitPart(ip))
               /\ (fp = <<>> \/ DigitPart(fp))
               /\ ~(ip = <<>> /\ fp = <<>>)

MantissaValue(s) ==
    LET dots == {i \in 1..Len(s) : s[i] = "."}
    IN IF dots = {} THEN [m |-> IntOf(DigitsOf(s)), e |-> 0]
       ELSE LET d == Min(dots)
                ip == DigitsOf(SubSeq(s, 1, d - 1))
                fp == DigitsOf(SubSeq(s, d + 1, Len(s)))
            IN [m |-> IntOf(ip \o fp), e |-> 0 - Len(fp)]

Unsign(s) == IF s # <<>> /\ s[1] \in {"+", "-"} THEN Tail(s) ELSE s
SignOf(s) == IF s # <<>> /\ s[1] = "-" THEN -1 ELSE 1

\* float(number) on an upper-cased string without surrounding whitespace:
\* None stands for ValueError; a finite value is m * 10^e with m not a
\* multiple of 10 (overflow to inf of huge exponents is not represented)
ParseFloat(number) ==
    LET body == Unsign(number)
        exps == {i \in 1..Len(body) : body[i] = "E"}
    IN IF body \in {<<"I","N","F">>, <<"I","N","F","I","N","I","T","Y">>} THEN Some([kind |-> "inf", sign |-> SignOf(number)])
       ELSE IF body = <<"N","A","N">> THEN Some([kind |-> "nan"])
       ELSE IF exps = {}
            THEN IF MantissaOk(body)
                 THEN LET v == MantissaValue(body)
                      IN Some(Normalize(SignOf(number) * v.m, v.e))
                 ELSE None
            ELSE LET x == Min(exps)
                     mant == SubSeq(body, 1, x - 1)
                     ex == SubSeq(body, x + 1, Len(body))
                 IN IF MantissaOk(mant) /\ DigitPart(Unsign(ex))
                    THEN LET v == MantissaValue(mant)
                         IN Some(Normalize(SignOf(number) * v.m,
                                           v.e + SignOf(ex) * IntOf(DigitsOf(Unsign(ex)))))
                    ELSE None

_parse_radius(token) ==
    LET value == Upper(Strip(token))
    IN IF ~StartsWith(value, <<"R">>) THEN None
       ELSE LET number == ReplaceChar(Tail(value), ",", ".")
            IN IF number = <<>> THEN None ELSE ParseFloat(number)


\* ------------------------------------------------------------------------
\* Regular-expression searches (re.search returns the leftmost match)
\* ------------------------------------------------------------------------
\* r'\d{4}N\d{5}E'
NEShape(t) ==
    /\ Len(t) = 11
    /\ AllIn(SubSeq(t, 1, 4), Digit)
    /\ t[5] = "N"
    /\ AllIn(SubSeq(t, 6, 10), Digit)
    /\ t[11] = "E"

DigitsShape(t) == AllIn(t, Digit)

\* re.search(lit + '(' + group + ')', s).group(1), the group being n characters
\* of shape "NE" (\d{4}N\d{5}E) or "digits" (\d{n})
SearchGroup(s, lit, n, shape) ==
    LET grp(i) == SubSeq(s, i + Len(lit), i + Len(lit) + n - 1)
        hits == {i \in 1..Len(s) :
                    /\ MatchAt(s, i, lit)
                    /\ i + Len(lit) + n - 1 <= Len(s)
                    /\ IF shape = "NE" THEN NEShape(grp(i)) ELSE DigitsShape(grp(i))}
    IN IF hits = {} THEN None ELSE Some(grp(Min(hits)))

\* length of the longest run of characters of C that starts at index p
RunLen(s, p, C) ==
    LET stops == {j \in p..Len(s) : s[j] \notin C}
    IN IF stops = {} THEN Len(s) - p + 1 ELSE Min(stops) - p

\* re.search(lit + '([C]+)', s).group(1): greedy run of at least one character
SearchRun(s, lit, C) ==
    LET hits == {i \in 1..Len(s) :
                    MatchAt(s, i, lit) /\ RunLen(s, i + Len(lit), C) >= 1}
    IN IF hits = {} THEN None
       ELSE LET g == Min(hits) + Len(lit)
            IN Some(SubSeq(s, g, g + RunLen(s, g, C) - 1))

\* re.search(r'/ZONA\s+([^/]+)', shr_msg).group(1): \s+ is greedy and gives
\* back its last character when nothing but '/' or the end follows it
ZonaCaptureAt(s, i) ==
    LET p == i + 5
        k == RunLen(s, p, Whitespace)
        q == p + k
        upto(b) == SubSeq(s, b, b + RunLen(s, b, {s[j] : j \in 1..Len(s)} \ {"/"}) - 1)
    IN IF ~MatchAt(s, i, <<"/","Z","O","N","A">>) \/ k = 0 THEN None
       ELSE IF q <= Len(s) /\ s[q] # "/" THEN Some(upto(q))
       ELSE IF k >= 2 THEN Some(upto(q - 1))
       ELSE None

ZonaSearch(s) ==
    LET hits == {i \in 1..Len(s) : ZonaCaptureAt(s, i) # None}
    IN IF hits = {} THEN None ELSE ZonaCaptureAt(s, Min(hits))

\* ------------------------------------------------------------------------
\* Zone resolver
\* ------------------------------------------------------------------------
ZoneTokens_keep_empty(content) ==
    LET raw == Split(ReplaceChar(content, "\n", " "))
    IN [i \in 1..Len(raw) |-> _clean_token(raw[i])]

ZoneTokens(content) ==
    LET raw == Split(ReplaceChar(content, "\n", " "))
        cleaned == [i \in 1..Len(raw) |-> _clean_token(raw[i])]
    IN SelectSeq(cleaned, LAMBDA t : t # <<>>)

PathZone(tokens) ==
    LET path == DecodeAll(tokens)
    IN IF path.raised THEN path
       ELSE Ok(Some([type |-> "path", path |-> path.value]))

IdZone(token) == Ok(Some([type |-> "id", id |-> token]))

CenterZone(center_token, radius) ==
    LET center == from_str(center_token)
    IN IF center.raised THEN center
       ELSE Ok(Some([type |-> "center", center |-> center.value, radius |-> radius]))

_parse_zone_content_path_first(content) ==
    LET tokens == ZoneTokens(content)
        first == tokens[1]
        radius == _parse_radius(first)
        later == SelectSeq(Tail(tokens), _is_coordinate_token)
        coord_tokens == SelectSeq(tokens, _is_coordinate_token)
    IN IF tokens = <<>> THEN Ok(None)
       ELSE IF Len(coord_tokens) > 1 THEN PathZone(coord_tokens)
       ELSE IF /\ StartsWith(Upper(first), <<"R">>) /\ Len(tokens) >= 2
               /\ radius # None /\ later # <<>>
            THEN CenterZone(later[1], radius[1])
       ELSE IF Len(tokens) = 1 /\ ~_is_coordinate_token(tokens[1]) THEN IdZone(tokens[1])
       ELSE IF Len(coord_tokens) = 1 THEN PathZone(coord_tokens)
       ELSE IdZone(tokens[1])

_parse_zone_content(content) ==
    LET tokens == ZoneTokens(content)
        first == tokens[1]
        radius == _parse_radius(first)
        later == SelectSeq(Tail(tokens), _is_coordinate_token)
        coord_tokens == SelectSeq(tokens, _is_coordinate_token)
    IN IF tokens = <<>> THEN Ok(None)
       ELSE IF /\ StartsWith(Upper(first), <<"R">>) /\ Len(tokens) >= 2
               /\ radius # None /\ later # <<>>
            THEN CenterZone(later[1], radius[1])
       ELSE IF Len(coord_tokens) > 1 THEN PathZone(coord_tokens)
       ELSE IF Len(tokens) = 1 /\ ~_is_coordinate_token(tokens[1]) THEN IdZone(tokens[1])
       ELSE IF Len(coord_tokens) = 1 THEN PathZone(coord_tokens)
       ELSE IdZone(tokens[1])

\* [line.strip() for line in shr_msg.splitlines() if line.strip().startswith('-K')]
KLines(shr_msg) ==
    LET lines == SplitLines(shr_msg)
        stripped == [i \in 1..Len(lines) |-> Strip(lines[i])]
    IN SelectSeq(stripped, LAMBDA l : StartsWith(l, <<"-","K">>))

KCoords(line) ==
    LET tokens == Tail(Split(line))
        cleaned == [i \in 1..Len(tokens) |-> _clean_token(tokens[i])]
    IN SelectSeq(cleaned, _is_coordinate_token)

_extract_k_zone_first(shr_msg) ==
    LET k_lines == KLines(shr_msg)
    IN IF k_lines = <<>> THEN Ok(None)
       ELSE LET coords == KCoords(k_lines[1])
            IN Ok(IF coords = <<>> THEN None ELSE Some(coords))

_extract_k_zone_noclean(shr_msg) ==
    LET k_lines == KLines(shr_msg)
    IN IF k_lines = <<>> THEN Ok(None)
       ELSE IF Len(k_lines) > 1 THEN Raise(MultipleK)
       ELSE LET coords == SelectSeq(Tail(Split(k_lines[1])), _is_coordinate_token)
            IN Ok(IF coords = <<>> THEN None ELSE Some(coords))

_extract_k_zone(shr_msg) ==
    LET k_lines == KLines(shr_msg)
    IN IF k_lines = <<>> THEN Ok(None)
       ELSE IF Len(k_lines) > 1 THEN Raise(MultipleK)
       ELSE LET coords == KCoords(k_lines[1])
            IN Ok(IF coords = <<>> THEN None ELSE Some(coords))

_extract_zone(shr_msg) ==
    LET zona_match == ZonaSearch(shr_msg)
        zone == IF zona_match # None THEN _parse_zone_content(zona_match[1]) ELSE Ok(None)
        path_coords == _extract_k_zone(shr_msg)
    IN IF zone.raised THEN zone
       ELSE IF zone.value # None THEN zone
       ELSE IF path_coords.raised THEN path_coords
       ELSE IF path_coords.value # None THEN PathZone(path_coords.value[1])
       ELSE Ok(None)

\* ------------------------------------------------------------------------
\* Field extractors
\* ------------------------------------------------------------------------
_extract_bpla_id(shr_msg) ==
    LET match == SearchRun(shr_msg, <<"(","S","H","R","-">>, UpperLetter \cup Digit)
    IN IF match # None /\ match[1] \notin {<<"Z","Z","Z","Z">>, <<"Z","Z","Z","Z","Z">>} THEN match ELSE None

_extract_bpla_type(shr_msg) ==
    LET match == SearchRun(shr_msg, <<"T","Y","P","/">>, UpperLetter)
    IN IF match # None THEN match[1] ELSE <<"B","L","A">>

_extract_departure_coordinates(shr_msg) == SearchGroup(shr_msg, <<"D","E","P","/">>, 11, "NE")

_extract_arrival_coordinates(shr_msg) == SearchGroup(shr_msg, <<"D","E","S","T","/">>, 11, "NE")

_extract_dep_coordinates(dep_msg) == SearchGroup(dep_msg, <<"-","A","D","E","P","Z"," ">>, 11, "NE")

_extract_arr_coordinates(arr_msg) == SearchGroup(arr_msg, <<"-","A","D","A","R","R","Z"," ">>, 11, "NE")

\* ------------------------------------------------------------------------
\* datetime.datetime and datetime.timedelta
\* ------------------------------------------------------------------------
IsLeap(y) == y % 4 = 0 /\ (y % 100 # 0 \/ y % 400 = 0)

DaysInMonth(y, m) ==
    IF m = 2 THEN (IF IsLeap(y) THEN 29 ELSE 28)
    ELSE IF m \in {4, 6, 9, 11} THEN 30 ELSE 31

RECURSIVE DaysBeforeMonth(_, _)
DaysBeforeMonth(y, m) ==
    IF m <= 1 THEN 0 ELSE DaysBeforeMonth(y, m - 1) + DaysInMonth(y, m - 1)

DaysBeforeYear(y) ==
    (y - 1) * 365 + ((y - 1) \div 4) - ((y - 1) \div 100) + ((y - 1) \div 400)

ToOrdinal(d) == DaysBeforeYear(d.year) + DaysBeforeMonth(d.year, d.month) + d.day

\* datetime(year, month, day, hour, minute): the constructor's range checks
datetime(year, month, day, hour, minute) ==
    IF ~(1 <= year /\ year <= 9999) THEN Raise("year is out of range")
    ELSE IF ~(1 <= month /\ month <= 12) THEN Raise("month must be in 1..12")
    ELSE IF ~(1 <= day /\ day <= DaysInMonth(year, month))
         THEN Raise("day is out of range for month")
    ELSE IF ~(0 <= hour /\ hour <= 23) THEN Raise("hour must be in 0..23")
    ELSE IF ~(0 <= minute /\ minute <= 59) THEN Raise("minute must be in 0..59")
    ELSE Ok(Some([year |-> year, month |-> month, day |-> day,
                  hour |-> hour, minute |-> minute, second |-> 0]))

SecondOfDay(d) == d.hour * 3600 + d.minute * 60 + d.second

\* a - b as a normalised timedelta: 0 <= seconds < 86400
Subtract(a, b) ==
    LET total == (ToOrdinal(a) - ToOrdinal(b)) * 86400 + SecondOfDay(a) - SecondOfDay(b)
        secs == total % 86400
    IN [days |-> (total - secs) \div 86400, seconds |-> secs]

total_seconds(td) == td.days * 86400 + td.seconds

\* bool(timedelta): a zero timedelta is falsy
TimedeltaTruthy(td) == td.days # 0 \/ td.seconds # 0

ExtractDatetime(msg, date_marker, time_marker) ==
    LET date_match == SearchGroup(msg, date_marker, 6, "digits")
        time_match == SearchGroup(msg, time_marker, 4, "digits")
    IN IF date_match # None /\ time_match # None
       THEN LET date_str == date_match[1]
                time_str == time_match[1]
            IN datetime(2000 + IntOf(SubSeq(date_str, 1, 2)),
                        IntOf(SubSeq(date_str, 3, 4)),
                        IntOf(SubSeq(date_str, 5, 6)),
                        IntOf(SubSeq(time_str, 1, 2)),
                        IntOf(SubSeq(time_str, 3, 4)))
       ELSE Ok(None)

_extract_dep_datetime(dep_msg) == ExtractDatetime(dep_msg, <<"-","A","D","D"," ">>, <<"-","A","T","D"," ">>)

_extract_arr_datetime(arr_msg) == ExtractDatetime(arr_msg, <<"-","A","D","A"," ">>, <<"-","A","T","A"," ">>)

\* strftime("%Y-%m-%d %H:%M:%S")
Pad(n, width) ==
    [i \in 1..width |-> DigitChars[((n \div (10 ^ (width - i))) % 10) + 1]]

strftime(d) ==
    Pad(d.year, 4) \o <<"-">> \o Pad(d.month, 2) \o <<"-">> \o Pad(d.day, 2) \o <<" ">>
        \o Pad(d.hour, 2) \o <<":">> \o Pad(d.minute, 2) \o <<":">> \o Pad(d.second, 2)

\* truthiness of an optional str: None and '' are falsy
Truthy(s) == s # None /\ s[1] # <<>>

FlightPoint_to_json_dict(point) ==
    [coordinate |-> point.coordinate,
     date |-> IF point.date # None THEN Some(strftime(point.date[1])) ELSE None]

FlightInfo_to_json_dict(info) ==
    [bpla_id |-> info.bpla_id,
     bpla_type |-> info.bpla_type,
     departure |-> FlightPoint_to_json_dict(info.departure),
     arrival |-> FlightPoint_to_json_dict(info.arrival),
     duration |-> IF info.duration # None /\ TimedeltaTruthy(info.duration[1])
                  THEN Some(total_seconds(info.duration[1])) ELSE None,
     zone |-> info.zone]

\* ------------------------------------------------------------------------
\* Explored inputs
\* ------------------------------------------------------------------------
RECURSIVE Concat(_)
Concat(parts) == IF parts = <<>> THEN <<>> ELSE parts[1] \o Concat(Tail(parts))

\* sequences over S of length at most n
SeqsUpTo(S, n) == UNION {[1..k -> S] : k \in 0..n}

\* each token preceded by one blank
Spaced(tokens) == Concat([i \in 1..Len(tokens) |-> <<" ">> \o tokens[i]])

ZoneTokenAlphabet ==
    {<<"R","0",",","5">>, <<"r",".">>, <<"W","R","1","8","2","5">>, <<"4","4","0","8","N","0","4","3","0","8","E">>, <<"5","9","5","7","S","0","2","9","0","5","W",",">>, <<".">>, <<"4","4","0","8","N","0","4","3","0","8","E","E">>}

KTokenAlphabet == {<<"1","2","3","4","N","0","1","2","3","4","E">>, <<"1","2","3","5","S","0","1","2","3","5","W",".">>, <<"M","0","0","0","5">>}

ZonaField(tokens) == <<"-","M","0","0","0","0","/","M","0","0","0","5"," ","/","Z","O","N","A">> \o Spaced(tokens) \o <<"/","\n">>

KLine(tokens) == <<"-","K","0","0","0","0","M","0","0","0","0">> \o Spaced(tokens) \o <<"\n">>

KPart(lines) == Concat([i \in 1..Len(lines) |-> KLine(lines[i])])

ShrHead == <<"(","S","H","R","-","0","0","7","2","5","\n","-","Z","Z","Z","Z","0","6","0","0","\n">>
ShrTail == <<"-","D","E","P","/","4","4","0","8","N","0","4","3","0","8","E"," ","D","E","S","T","/","4","4","0","8","N","0","4","3","0","9","E"," ","D","O","F","/","2","5","0","1","2","4"," ","T","Y","P","/","B","L","A"," ","R","M","K","/","W","R","6","5","5",")">>

\* /ZONA fields of every token list, with few -K lines around them
ZoneFieldInputs ==
    {ShrHead \o ZonaField(zt) \o KPart(kl) \o ShrTail :
        zt \in SeqsUpTo(ZoneTokenAlphabet, MaxZoneTokens),
        kl \in {<<>>, << <<<<"1","2","3","4","N","0","1","2","3","4","E">>>> >>,
                << <<<<"1","2","3","4","N","0","1","2","3","4","E">>>>, <<<<"1","2","3","5","S","0","1","2","3","5","W",".">>>> >>}}

\* a first -K line of every token list, followed by further plain -K lines
KLineLists ==
    {<<>>} \cup
    {<<first>> \o rest :
        first \in SeqsUpTo(KTokenAlphabet, MaxKTokens),
        rest \in SeqsUpTo({<<>>, <<<<"1","2","3","6","N","0","1","2","3","6","E">>>>}, MaxKLines - 1)}

\* -K lines, with few /ZONA fields before them
KLineInputs ==
    {ShrHead \o zf \o KPart(kl) \o ShrTail :
        zf \in {<<>>, <<"-","M","0","0","0","0"," ","/","Z","O","N","A"," "," ","/","\n">>, <<"-","M","0","0","0","0"," ","/","Z","O","N","A","/","\n">>, <<"-","M","0","0","0","0"," ","/","Z","O","N","A"," ","W","R","1","8","2","5","/","\n">>},
        kl \in KLineLists}

\* the four examples of the source (free text shortened) and odd layouts
Shr1 == <<"(","S","H","R","-","0","0","7","2","5","\n","-","Z","Z","Z","Z","0","6","0","0","\n","-","M","0","0","0","0","/","M","0","0","0","5"," ","/","Z","O","N","A"," ","R","0",",","5"," ","4","4","0","8","N","0","4","3","0","8","E","/","\n","-","Z","Z","Z","Z","0","7","0","0","\n","-","D","E","P","/","4","4","0","8","N","0","4","3","0","8","E"," ","D","E","S","T","/","4","4","0","8","N","0","4","3","0","8","E"," ","D","O","F","/","2","5","0","1","2","4"," ","R","E","G","/","0","0","7","2","4",",","R","E","G","0","0","7","2","5"," ","S","T","S","/","S","A","R"," ","T","Y","P","/","B","L","A"," ","R","M","K","/","W","R","6","5","5"," ","S","I","D","/","7","7","7","2","2","5","1","1","3","7",")">>
Dep1 == <<"-","T","I","T","L","E"," ","I","D","E","P","\n","-","S","I","D"," ","7","7","7","2","1","8","7","9","9","8","\n","-","A","D","D"," ","2","5","0","2","0","1","\n","-","A","T","D"," ","0","7","0","5","\n","-","A","D","E","P"," ","Z","Z","Z","Z","\n","-","A","D","E","P","Z"," ","5","9","5","7","N","0","2","9","0","5","E","\n","-","P","A","P"," ","0">>
Shr2 == <<"(","S","H","R","-","Z","Z","Z","Z","Z","\n","-","Z","Z","Z","Z","0","6","0","0","\n","-","M","0","0","4","5","/","M","0","1","4","0"," ","/","Z","O","N","A"," ","W","R","1","8","2","5","/","\n","-","Z","Z","Z","Z","1","0","0","0","\n","-","D","E","P","/","5","6","5","9","N","0","5","2","4","8","E"," ","D","E","S","T","/","5","6","5","9","N","0","5","2","4","8","E"," ","D","O","F","/","2","5","0","2","1","7"," ","E","E","T","/","U","S","S","V","0","0","0","1"," ","R","E","G","/","0","0","I","0","1","6","4"," ","T","Y","P","/","B","L","A"," ","R","M","K","/","B","P","1","8","2","5"," ","S","I","D","/","7","7","7","2","3","3","7","4","6","8",")">>
Dep2 == <<"-","T","I","T","L","E"," ","I","D","E","P","\n","-","S","I","D"," ","7","7","7","2","3","3","7","4","6","8","\n","-","A","D","D"," ","2","5","0","2","1","7","\n","-","A","T","D"," ","0","6","0","0">>
Arr2 == <<"-","T","I","T","L","E"," ","I","A","R","R","\n","-","S","I","D"," ","7","7","7","2","3","3","7","4","6","8","\n","-","A","D","A"," ","2","5","0","2","1","7","\n","-","A","T","A"," ","1","5","0","1">>
Shr3 == <<"(","S","H","R","-","R","A","0","7","2","0","G","\n","-","Z","Z","Z","Z","0","4","0","0","\n","-","K","0","0","0","1","M","0","0","4","0","\n","-","D","E","P","/","5","2","0","0","N","0","8","5","5","4","E"," ","D","L","E","/","5","2","0","0","N","0","8","5","5","4","E","0","7","0","0"," ","D","O","F","/","2","5","0","3","1","5"," ","O","R","G","N","/","+","7","9","1","3","6","9","7","6","9","9","6"," ","R","E","G","/","R","A","0","7","2","0","G"," ","T","Y","P","/","S","H","A","R"," ","R","M","K","/","4","0"," ","S","I","D","/","7","7","7","2","3","9","3","7","6","5",")">>
Dep3 == <<"-","T","I","T","L","E"," ","I","D","E","P","\n","-","S","I","D"," ","7","7","7","2","3","9","3","7","6","5","\n","-","A","D","D"," ","2","5","0","3","1","5","\n","-","A","T","D"," ","0","4","0","0","\n","-","A","D","E","P"," ","Z","Z","Z","Z","\n","-","A","D","E","P","Z"," ","5","2","0","0","N","0","8","5","5","4","E","\n","-","P","A","P"," ","0","\n","-","R","E","G"," ","R","A","0","7","2","0","G">>
Arr3 == <<"-","T","I","T","L","E"," ","I","A","R","R","\n","-","S","I","D"," ","7","7","7","2","3","9","3","7","6","5","\n","-","A","D","A"," ","2","5","0","3","1","5","\n","-","A","T","A"," ","1","1","0","6","\n","-","A","D","A","R","R"," ","Z","Z","Z","Z","\n","-","A","D","A","R","R","Z"," ","5","2","0","0","N","0","8","5","5","4","E","\n","-","P","A","P"," ","0","\n","-","R","E","G"," ","R","A","0","7","2","0","G">>
Shr4 == <<"(","S","H","R","-","K","P","A","T","H","\n","-","Z","Z","Z","Z","0","0","0","0","\n","-","K","0","0","0","0","M","0","0","0","0"," ","1","2","3","4","N","0","1","2","3","4","E"," ","1","2","3","5","N","0","1","2","3","5","E"," ","1","2","3","6","N","0","1","2","3","6","E","\n","-","Z","Z","Z","Z","0","1","0","0","\n","-","D","E","P","/","1","2","3","4","N","0","1","2","3","4","E"," ","D","E","S","T","/","1","2","3","6","N","0","1","2","3","6","E"," ","D","O","F","/","2","5","0","1","0","1"," ","T","Y","P","/","B","L","A",")">>

ExampleInputs ==
    {<<Shr1, Some(Dep1), None>>, <<Shr2, Some(Dep2), Some(Arr2)>>,
     <<Shr3, Some(Dep3), Some(Arr3)>>, <<Shr4, None, None>>}
    \cup {<<s, None, None>> : s \in
          {<<>>,
           <<"/","Z","O","N","A"," ","R","1","E","1"," ","4","4","0","8","N","0","4","3","0","8","E">>,
           <<"/","Z","O","N","A"," ","R","I","N","F"," ","4","4","0","8","N","0","4","3","0","8","E"," ","5","9","5","7","S","0","2","9","0","5","W","/">>,
           <<"/","Z","O","N","A","\n","-","K","0","1"," ","1","2","3","4","N","0","1","2","3","4","E","\n","-","K","0","2","\n">>,
           <<"/","Z","O","N","A","/"," ","/","Z","O","N","A"," ","\t"," ","W","R","1","/","\n"," "," ","-","K","0","1"," ","1","2","3","4","N","0","1","2","3","4","E","\n","\t","-","K","0","2"," ","1","2","3","5","S","0","1","2","3","5","W">>,
           <<"(","S","H","R","-","Z","Z","Z","Z"," ","T","Y","P","/"," ","/","Z","O","N","A"," ","R",".","5",",","\n","4","4","0","8","N","0","4","3","0","8","E",".","\n","-","K","0","1"," ","/","1","2","3","4","N","0","1","2","3","4","E","/"," ",",","1","2","3","5","S","0","1","2","3","5","W">>,
           <<"(","S","H","R","-"," ","T","Y","P","/","b","l","a","\n","-","K"," ","1","2","3","4","N","0","1","2","3","4","E","\n"," ","-","K","D","E","S","T","/","1","2","3","5","N","0","1","2","3","5","E">>}}

ShrEndpointInputs ==
    {<<"(","S","H","R","-","0","0","7","2","5","\n","-","D","E","P","/","4","4","0","8","N","0","4","3","0","8","E"," ","D","E","S","T","/","4","4","0","8","N","0","4","3","0","9","E"," ","T","Y","P","/","B","L","A",")">>,
     <<"(","S","H","R","-","Z","Z","Z","Z","Z","\n","-","D","E","P","/","4","4","0","8","S","0","4","3","0","8","E"," ","D","E","S","T","/","4","4","0","8","N","0","4","3","0","9","W",")">>,
     <<"(","S","H","R","-","X","1","\n","-","K","0","1","\n","-","K","0","2","\n","-","D","E","P","/","4","4","0","8","N","0","4","3","0","8","E"," ","T","Y","P","/","S","H","A","R",")">>}

DateInputs(marker) ==
    {<<>>} \cup {marker \o d \o <<"\n">> : d \in {<<"2","5","0","2","0","1">>, <<"2","5","0","3","0","1">>, <<"2","5","1","3","0","1">>, <<"2","5","0","2">>}}

DepTimeInputs == {<<>>} \cup {<<"-","A","T","D"," ">> \o t \o <<"\n">> : t \in {<<"0","7","0","5">>, <<"2","4","0","5">>}}

ArrTimeInputs == {<<>>} \cup {<<"-","A","T","A"," ">> \o t \o <<"\n">> : t \in {<<"0","7","0","5">>, <<"0","6","0","0">>, <<"0","8","6","0">>}}

CoordInputs(marker) ==
    {<<>>} \cup {marker \o c : c \in {<<"5","9","5","7","N","0","2","9","0","5","E">>, <<"5","9","5","7","S","0","2","9","0","5","W">>}}

DepInputs ==
    {None, Some(<<>>)}
    \cup {Some(<<"-","T","I","T","L","E"," ","I","D","E","P","\n">> \o d \o t \o c) :
            d \in DateInputs(<<"-","A","D","D"," ">>), t \in DepTimeInputs, c \in CoordInputs(<<"-","A","D","E","P","Z"," ">>)}

ArrInputs ==
    {None}
    \cup {Some(<<"-","T","I","T","L","E"," ","I","A","R","R","\n">> \o d \o t \o c) :
            d \in (DateInputs(<<"-","A","D","A"," ">>) \cup {<<"-","A","D","A"," ","2","5","0","1","3","1","\n">>, <<"-","A","D","A"," ","2","5","0","2","3","0","\n">>}),
            t \in ArrTimeInputs, c \in CoordInputs(<<"-","A","D","A","R","R","Z"," ">>)}

\* geo-tokens handed to the decoder on its own
TokenInputs ==
    {lat_deg \o lat_min \o lat_hemi \o lon_deg \o lon_min \o lon_hemi :
        lat_deg \in {<<"0","0">>, <<"4","4">>, <<"9","0">>},
        lat_min \in {<<"0","0">>, <<"0","8">>, <<"5","9">>, <<"6","0">>, <<"9","9">>},
        lat_hemi \in {<<"N">>, <<"S">>, <<"X">>},
        lon_deg \in {<<"0","0","0">>, <<"0","4","3">>, <<"1","7","9">>},
        lon_min \in {<<"0","0">>, <<"0","8">>, <<"5","9">>, <<"6","0">>, <<"9","9">>},
        lon_hemi \in {<<"E">>, <<"W">>}}
    \cup {<<>>, <<"4","4","0","8","N","0","4","3","0","8">>, <<"4","4","0","8","N","0","4","3","0","8","E","E">>, <<"4","4"," ","8","N","0","4","3","0","8","E">>}

\* ------------------------------------------------------------------------
\* State
\* ------------------------------------------------------------------------
VARIABLES
    shr_msg, dep_msg, arr_msg,      \* the arguments of parse_flight_info
    value,                          \* the argument of a direct Coordinate.from_str call
    pc,                             \* position in the driver
    bpla_id, bpla_type, shr_departure_coords, shr_arrival_coords, zone,
    dep_coords, dep_date, arr_coords, arr_date,
    info,                           \* the FlightInfo returned by parse_flight_info
    json,                           \* FlightInfo.to_json_dict()
    coord,                          \* the outcome of the direct from_str call
    error                           \* the exception that escaped

locals == <<bpla_id, bpla_type, shr_departure_coords, shr_arrival_coords, zone,
            dep_coords, dep_date, arr_coords, arr_date>>
args == <<shr_msg, dep_msg, arr_msg, value>>
vars == <<args, pc, locals, info, json, coord, error>>

InitLocals ==
    /\ bpla_id = None /\ bpla_type = None
    /\ shr_departure_coords = None /\ shr_arrival_coords = None /\ zone = None
    /\ dep_coords = None /\ dep_date = None /\ arr_coords = None /\ arr_date = None
    /\ info = None /\ json = None /\ coord = None /\ error = None

InitParse ==
    /\ pc = "start"
    /\ value = <<>>
    /\ \/ shr_msg \in ZoneFieldInputs \cup KLineInputs /\ dep_msg = None /\ arr_msg = None
       \/ \E e \in ExampleInputs : shr_msg = e[1] /\ dep_msg = e[2] /\ arr_msg = e[3]
       \/ shr_msg \in ShrEndpointInputs /\ dep_msg \in DepInputs /\ arr_msg \in ArrInputs

InitDecode ==
    /\ pc = "decode"
    /\ value \in TokenInputs
    /\ shr_msg = <<>> /\ dep_msg = None /\ arr_msg = None

Init == InitLocals /\ (InitParse \/ InitDecode)

\* ------------------------------------------------------------------------
\* parse_flight_info, step by step, and its callers
\* ------------------------------------------------------------------------
Raised(e) == pc' = "raised" /\ error' = Some(e)

\* lines 104-108: the extractions from the shorthand message
ParseShr ==
    /\ pc = "start"
    /\ bpla_id' = _extract_bpla_id(shr_msg)
    /\ bpla_type' = Some(_extract_bpla_type(shr_msg))
    /\ shr_departure_coords' = _extract_departure_coordinates(shr_msg)
    /\ shr_arrival_coords' = _extract_arrival_coordinates(shr_msg)
    /\ LET z == _extract_zone(shr_msg)
       IN IF z.raised
          THEN Raised(z.error) /\ zone' = zone
          ELSE pc' = "dep" /\ zone' = z.value /\ error' = error
    /\ UNCHANGED <<args, dep_coords, dep_date, arr_coords, arr_date, info, json, coord>>

\* lines 111-115: the extractions from the departure message
ParseDep ==
    /\ pc = "dep"
    /\ IF Truthy(dep_msg)
       THEN /\ dep_coords' = _extract_dep_coordinates(dep_msg[1])
            /\ LET d == _extract_dep_datetime(dep_msg[1])
               IN IF d.raised
                  THEN Raised(d.error) /\ dep_date' = dep_date
                  ELSE pc' = "arr" /\ dep_date' = d.value /\ error' = error
       ELSE pc' = "arr" /\ UNCHANGED <<dep_coords, dep_date, error>>
    /\ UNCHANGED <<args, bpla_id, bpla_type, shr_departure_coords, shr_arrival_coords,
                   zone, arr_coords, arr_date, info, json, coord>>

\* lines 118-122: the extractions from the arrival message
ParseArr ==
    /\ pc = "arr"
    /\ IF Truthy(arr_msg)
       THEN /\ arr_coords' = _extract_arr_coordinates(arr_msg[1])
            /\ LET d == _extract_arr_datetime(arr_msg[1])
               IN IF d.raised
                  THEN Raised(d.error) /\ arr_date' = arr_date
                  ELSE pc' = "assemble" /\ arr_date' = d.value /\ error' = error
       ELSE pc' = "assemble" /\ UNCHANGED <<arr_coords, arr_date, error>>
    /\ UNCHANGED <<args, bpla_id, bpla_type, shr_departure_coords, shr_arrival_coords,
                   zone, dep_coords, dep_date, info, json, coord>>

\* a or b on optional strings
OrElse(a, b) == IF Truthy(a) THEN a ELSE b

\* x = Coordinate.from_str(x) if x is not None
DecodeOptional(token) ==
    IF token = None THEN Ok(None)
    ELSE LET c == from_str(token[1])
         IN IF c.raised THEN c ELSE Ok(Some(c.value))

Duration(dep, arr) ==
    IF dep # None /\ arr # None THEN Some(Subtract(arr[1], dep[1])) ELSE None

\* lines 124-150: precedence of the sources, decoding, duration, the record
Assemble ==
    /\ pc = "assemble"
    /\ LET departure_coords == DecodeOptional(OrElse(dep_coords, shr_departure_coords))
           arrival_coords == DecodeOptional(OrElse(arr_coords, shr_arrival_coords))
       IN IF departure_coords.raised THEN Raised(departure_coords.error) /\ info' = info
          ELSE IF arrival_coords.raised THEN Raised(arrival_coords.error) /\ info' = info
          ELSE /\ pc' = "parsed"
               /\ error' = error
               /\ info' = Some([bpla_id |-> bpla_id,
                                bpla_type |-> bpla_type[1],
                                departure |-> [coordinate |-> departure_coords.value,
                                               date |-> dep_date],
                                arrival |-> [coordinate |-> arrival_coords.value,
                                             date |-> arr_date],
                                duration |-> Duration(dep_date, arr_date),
                                zone |-> zone])
    /\ UNCHANGED <<args, locals, json, coord>>

\* parse_all.py line 17: the record as the driver serialises it
ToJsonDict ==
    /\ pc = "parsed"
    /\ json' = Some(FlightInfo_to_json_dict(info[1]))
    /\ pc' = "done"
    /\ UNCHANGED <<args, locals, info, coord, error>>

\* a direct call of the codec
FromStr ==
    /\ pc = "decode"
    /\ coord' = Some(from_str(value))
    /\ pc' = "decoded"
    /\ UNCHANGED <<args, locals, info, json, error>>

Next == ParseShr \/ ParseDep \/ ParseArr \/ Assemble \/ ToJsonDict \/ FromStr

Spec == Init /\ [][Next]_vars

\* ------------------------------------------------------------------------
\* Vocabulary of the properties
\* ------------------------------------------------------------------------
\* parse_flight_info has left the shorthand message behind (or failed)
AfterShr == pc \in {"dep", "arr", "assemble", "parsed", "done", "raised"}

\* 4 digits, N or S, 5 digits, E or W
GeoShaped(t) ==
    /\ Len(t) = 11
    /\ \A i \in (1..4) \cup (6..10) : t[i] \in Digit
    /\ t[5] \in {"N", "S"}
    /\ t[11] \in {"E", "W"}

Decoded(t) == from_str(t).value

DecodedEach(tokens) == [i \in 1..Len(tokens) |-> Decoded(tokens[i])]

\* whitespace-separated pieces, stripped of . , / at both ends, empty ones dropped
FieldTokens(text) ==
    LET pieces == Split(text)
        bare == [i \in 1..Len(pieces) |-> StripSet(pieces[i], {".", ",", "/"})]
    IN SelectSeq(bare, LAMBDA t : Len(t) > 0)

\* the cleaned tokens of the /ZONA field; empty when there is no field
ZonaFieldTokens ==
    LET m == ZonaSearch(shr_msg)
    IN IF m = None THEN <<>> ELSE FieldTokens(m[1])

\* start indices of the -K markers that begin a line (after optional blanks)
KMarkers ==
    {i \in 1..Len(shr_msg) :
        /\ MatchAt(shr_msg, i, <<"-","K">>)
        /\ \A j \in 1..(i - 1) :
              (\A k \in j..(i - 1) : shr_msg[k] \notin LineBreak) => shr_msg[j] \in Whitespace}

\* the text of the line that starts at index i
LineFrom(i) == SubSeq(shr_msg, i, i + RunLen(shr_msg, i, {shr_msg[j] : j \in 1..Len(shr_msg)} \ LineBreak) - 1)

\* the coordinate-shaped tokens after the marker token of the line at index i
KLineGeoTokens(i) ==
    LET rest == Tail(Split(LineFrom(i)))
        bare == [k \in 1..Len(rest) |-> StripSet(rest[k], {".", ",", "/"})]
    IN SelectSeq(bare, GeoShaped)

\* ------------------------------------------------------------------------
\* C1
\* ------------------------------------------------------------------------
\* C1 (as stated): a shorthand message with more than one line beginning
\* with -K never gets past the zone extraction, whatever else it contains:
\* parse_flight_info raises and returns no record.
C1_AmbiguityAlwaysRejected ==
    (Cardinality(KMarkers) > 1 /\ AfterShr) => (pc = "raised" /\ info = None)

\* C1 (amended): a shorthand message with more than one line beginning with
\* -K fails with the multiple-lines error exactly when its /ZONA field gives
\* no token (marker absent or empty capture); when the field gives a token
\* the zone comes from the field and the -K lines are not examined.
C1_AmbiguityRejectedInFallback ==
    (Cardinality(KMarkers) > 1 /\ AfterShr) =>
        IF ZonaFieldTokens = <<>>
        THEN pc = "raised" /\ error = Some(MultipleK) /\ info = None
        ELSE error # Some(MultipleK) /\ zone # None

C1_Witness ==
    /\ pc = "raised" /\ error = Some(MultipleK)
    /\ Cardinality(KMarkers) > 1
    /\ ZonaSearch(shr_msg) # None

\* ------------------------------------------------------------------------
\* C2
\* ------------------------------------------------------------------------
\* the geo-token that follows the first occurrence of the marker followed by
\* one, in a message that is present
MarkedGeoToken(msg, marker) ==
    LET text == IF msg = None THEN <<>> ELSE msg[1]
        after(i) == SubSeq(text, i + Len(marker), i + Len(marker) + 10)
        found == {i \in 1..Len(text) :
                     /\ MatchAt(text, i, marker)
                     /\ i + Len(marker) + 10 <= Len(text)
                     /\ GeoShaped(after(i))}
    IN IF found = {} THEN None ELSE Some(after(Min(found)))

EndpointByPrecedence(dedicated, shorthand) ==
    IF dedicated # None THEN Some(Decoded(dedicated[1]))
    ELSE IF shorthand # None THEN Some(Decoded(shorthand[1]))
    ELSE None

\* C2: the endpoint coordinate of the record is the decoding of the geo-token
\* after -ADEPZ / -ADARRZ in the dedicated message when there is one, else
\* the decoding of the shorthand DEP/ or DEST/ value, else none.
C2_CoordinatePrecedence ==
    pc \in {"parsed", "done"} =>
        /\ info[1].departure.coordinate =
              EndpointByPrecedence(MarkedGeoToken(dep_msg, <<"-","A","D","E","P","Z"," ">>), shr_departure_coords)
        /\ info[1].arrival.coordinate =
              EndpointByPrecedence(MarkedGeoToken(arr_msg, <<"-","A","D","A","R","R","Z"," ">>), shr_arrival_coords)

\* ------------------------------------------------------------------------
\* C3
\* ------------------------------------------------------------------------
SecondsBetween(a, b) ==
    86400 * (ToOrdinal(a) - ToOrdinal(b)) + 60 * (60 * (a.hour - b.hour) + (a.minute - b.minute))

\* C3: the duration of the emitted record is null exactly when a timestamp
\* is absent, and otherwise the signed number of seconds from the departure
\* timestamp to the arrival timestamp, zero included.
C3_DurationEmitted ==
    pc = "done" =>
        IF dep_date = None \/ arr_date = None
        THEN json[1].duration = None
        ELSE json[1].duration = Some(SecondsBetween(arr_date[1], dep_date[1]))

\* ------------------------------------------------------------------------
\* C4
\* ------------------------------------------------------------------------
\* C4: a record fails only on a malformed geo-token handed to the decoder or
\* on more than one -K line; every other input gives a complete record.
C4_FatalErrorTaxonomy ==
    pc = "raised" => error \in {Some(AssertionError), Some(WrongFormat), Some(MultipleK)}

\* ------------------------------------------------------------------------
\* C5
\* ------------------------------------------------------------------------
GeoTokensOf(tokens) == SelectSeq(tokens, GeoShaped)

\* the ordered rules (a)-(e) on a non-empty token list
ZoneByRules(tokens) ==
    LET radius == _parse_radius(tokens[1])
        later == GeoTokensOf(Tail(tokens))
        geo == GeoTokensOf(tokens)
    IN CASE radius # None /\ Len(tokens) >= 2 /\ later # <<>> ->
                [type |-> "center", center |-> Decoded(later[1]), radius |-> radius[1]]
         [] OTHER ->
            CASE Len(geo) >= 2 -> [type |-> "path", path |-> DecodedEach(geo)]
              [] OTHER ->
                 CASE Len(tokens) = 1 /\ geo = <<>> -> [type |-> "id", id |-> tokens[1]]
                   [] OTHER ->
                      CASE Len(geo) = 1 -> [type |-> "path", path |-> <<Decoded(geo[1])>>]
                        [] OTHER -> [type |-> "id", id |-> tokens[1]]

\* C5: when the /ZONA field has a cleaned non-empty token, the zone is the
\* one the ordered rules (a)-(e) give for the field's token list.
C5_ZoneClassification ==
    (AfterShr /\ ZonaFieldTokens # <<>>) => zone = Some(ZoneByRules(ZonaFieldTokens))

\* a circle chosen although further coordinate tokens follow its center
C5_Witness ==
    /\ pc = "done"
    /\ zone # None /\ zone[1].type = "center"
    /\ Len(GeoTokensOf(ZonaFieldTokens)) >= 2

\* ------------------------------------------------------------------------
\* C6
\* ------------------------------------------------------------------------
\* C6: without a token in the /ZONA field the zone comes from the -K lines:
\* none when there is no such line; with exactly one, the path of the
\* coordinate-shaped tokens after its marker token, or none without any.
C6_PathMarkerFallback ==
    (AfterShr /\ ZonaFieldTokens = <<>> /\ Cardinality(KMarkers) <= 1) =>
        /\ error # Some(MultipleK)
        /\ IF KMarkers = {} THEN zone = None
           ELSE LET geo == KLineGeoTokens(CHOOSE i \in KMarkers : TRUE)
                IN IF geo = <<>> THEN zone = None
                   ELSE zone = Some([type |-> "path", path |-> DecodedEach(geo)])

\* a path of several vertices taken from the -K line under an empty /ZONA field
C6_Witness ==
    /\ pc = "done"
    /\ ZonaSearch(shr_msg) # None /\ ZonaFieldTokens = <<>>
    /\ Cardinality(KMarkers) = 1
    /\ zone # None /\ zone[1].type = "path" /\ Len(zone[1].path) >= 2

\* ------------------------------------------------------------------------
\* C7
\* ------------------------------------------------------------------------
\* a coordinate written back at minute resolution in the layout of the
\* token, the hemisphere letter taken from the sign bit
Encode(c) ==
    Pad(c.latitude.sixtieths \div 60, 2) \o Pad(c.latitude.sixtieths % 60, 2)
        \o (IF c.latitude.negative THEN <<"S">> ELSE <<"N">>)
        \o Pad(c.longitude.sixtieths \div 60, 3) \o Pad(c.longitude.sixtieths % 60, 2)
        \o (IF c.longitude.negative THEN <<"W">> ELSE <<"E">>)

DecodedOk == pc = "decoded" /\ ~coord[1].raised

\* C7 (as stated): every token the decoder accepts is reproduced by
\* decoding and re-encoding.
C7_RoundTripAll == DecodedOk => Encode(coord[1].value) = value

\* minutes below 60 in both groups
CanonicalToken(t) ==
    /\ IntOf(SubSeq(t, 3, 4)) < 60
    /\ IntOf(SubSeq(t, 9, 10)) < 60

\* C7 (amended): every accepted token whose minute groups are both below 60
\* is reproduced by decoding and re-encoding.
C7_RoundTripCanonical ==
    (DecodedOk /\ CanonicalToken(value)) => Encode(coord[1].value) = value

\* a south-western token with minutes 59 that came back unchanged
C7_Witness ==
    /\ DecodedOk /\ CanonicalToken(value)
    /\ value[5] = "S" /\ value[11] = "W"
    /\ SubSeq(value, 3, 4) = <<"5","9">>
    /\ Encode(coord[1].value) = value

\* ------------------------------------------------------------------------
\* C8
\* ------------------------------------------------------------------------
OneVariant(z) ==
    \/ z = None
    \/ /\ z[1].type = "center"
       /\ DOMAIN z[1] = {"type", "center", "radius"}
    \/ /\ z[1].type = "path"
       /\ DOMAIN z[1] = {"type", "path"}
       /\ Len(z[1].path) >= 1
    \/ /\ z[1].type = "id"
       /\ DOMAIN z[1] = {"type", "id"}
       /\ Len(z[1].id) >= 1

\* C8: the zone of a record is none or exactly one populated variant:
\* center with center and radius, a non-empty path, or a non-empty id.
C8_ZoneShape ==
    /\ OneVariant(zone)
    /\ info # None => OneVariant(info[1].zone)
    /\ json # None => OneVariant(json[1].zone)

\* a named zone next to a piece of the field that cleans to nothing
C8_Witness ==
    /\ pc = "done"
    /\ json[1].zone # None /\ json[1].zone[1].type = "id"
    /\ Len(Split(ZonaSearch(shr_msg)[1])) > Len(ZonaFieldTokens)

\* ------------------------------------------------------------------------
\* C9
\* ------------------------------------------------------------------------
\* the civil date-time written after the two markers of a present message
Stamp(msg, date_marker, time_marker) ==
    LET d == IF msg = None THEN None ELSE SearchGroup(msg[1], date_marker, 6, "digits")
        t == IF msg = None THEN None ELSE SearchGroup(msg[1], time_marker, 4, "digits")
    IN IF d = None \/ t = None THEN None
       ELSE Some([year |-> 2000 + IntOf(SubSeq(d[1], 1, 2)),
                  month |-> IntOf(SubSeq(d[1], 3, 4)),
                  day |-> IntOf(SubSeq(d[1], 5, 6)),
                  hour |-> IntOf(SubSeq(t[1], 1, 2)),
                  minute |-> IntOf(SubSeq(t[1], 3, 4)),
                  second |-> 0])

DepStamp == Stamp(dep_msg, <<"-","A","D","D"," ">>, <<"-","A","T","D"," ">>)
ArrStamp == Stamp(arr_msg, <<"-","A","D","A"," ">>, <<"-","A","T","A"," ">>)

\* the departure (arrival) message has been dealt with, successfully or not
DepExtracted == AfterShr /\ error # Some(MultipleK)
ArrExtracted == DepExtracted /\ pc # "dep" /\ dep_date = DepStamp

\* C9: a timestamp is present exactly when its message is present and holds
\* both markers with their digit groups, and is then the date-time they spell.
C9_TimestampExtraction ==
    /\ (DepExtracted /\ pc # "dep") => dep_date = DepStamp
    /\ (ArrExtracted /\ pc # "arr") => arr_date = ArrStamp

\* ------------------------------------------------------------------------
\* C10
\* ------------------------------------------------------------------------
\* C10: no run of parse_flight_info ends in the decoder's length assertion
\* or in its wrong-format error.
C10_DecoderPrecondition ==
    error \notin {Some(AssertionError), Some(WrongFormat)}

\* a record whose zone path was decoded next to a 12-character near-token
C10_Witness ==
    /\ pc = "done"
    /\ zone # None /\ zone[1].type = "path"
    /\ info[1].departure.coordinate # None
    /\ \E i \in 1..Len(ZonaFieldTokens) :
          Len(ZonaFieldTokens[i]) = 12 /\ DecoderShape(ZonaFieldTokens[i])

====
